---- MODULE Spec2Model ----
(***************************************************************************)
(* Emergency-vehicle traffic-light preemption controller                   *)
(* (src/emergency_preemption.py).  The controller runs once per simulation *)
(* step: process_emergency_vehicles() tries to override the junctions the  *)
(* prioritized vehicles approach, check_preempted_junctions() releases the *)
(* overrides whose vehicle has gone.  The simulation engine (TraCI) is the *)
(* environment: it moves the vehicles, advances the signal plans, answers  *)
(* the queries and may raise an error on any call.                         *)
(*                                                                         *)
(* Identifiers (edge, lane, junction-internal edge ids) and signal strings *)
(* are sequences of one-character strings, so that the string operations   *)
(* of the code (split, startswith, join) are modelled by what they do.     *)
(***************************************************************************)
EXTENDS Integers, Sequences, FiniteSets, TLC

(* ------------------------------------------------------------------ *)
(* Program constants                                                   *)
(* ------------------------------------------------------------------ *)

DETECTION_RADIUS == 50

\* class -> priority rank (lower number = higher priority)
EMERGENCY_VEHICLE_TYPES ==
    [veh_ambulance         |-> 1,
     veh_ambulance_urgent  |-> 1,
     veh_firefighter       |-> 2,
     veh_firefighter_heavy |-> 2,
     veh_police            |-> 3,
     veh_police_swat       |-> 3,
     veh_disaster_response |-> 2,
     veh_medical_transport |-> 4,
     veh_hazmat            |-> 2]

NORMAL_VEHICLE_TYPE == "veh_passenger"

\* Python's None for an approach index: the empty option; <<i>> is index i.
None == << >>

Some(i) == << i >>

(* ------------------------------------------------------------------ *)
(* Bounds of the scenario                                              *)
(* ------------------------------------------------------------------ *)

\* Number of TraCI calls that raise an error in one run.
MaxFaults == 1

\* Length bounds of the inputs drawn for get_approaching_lane on its own.
MaxRoute == 2

MaxLinks == 2

(* ------------------------------------------------------------------ *)
(* The road network and the fleet of the scenario                      *)
(* ------------------------------------------------------------------ *)

e0 == << "e", "0" >>
e1 == << "e", "1" >>
e2 == << "e", "2" >>
s0 == << "s", "0" >>
s1 == << "s", "1" >>
internalJ1 == << ":", "J", "1", "_", "0" >>

\* lane id = edge id + "_" + lane index
LaneOf(edge, k) == edge \o << "_", k >>

\* traci.vehicle.getIDList(): the vehicles of the scenario in arrival order
VehicleIDs == << "v1", "v2" >>

\* traci.trafficlight.getIDList(): the junctions in the engine's order
TLSIDs == << "J1", "J2" >>

Vehicles == { VehicleIDs[i] : i \in 1..Len(VehicleIDs) }

Junctions == { TLSIDs[i] : i \in 1..Len(TLSIDs) }

\* the classes a vehicle of the scenario may have when it is inserted
Fleet ==
    [v1 |-> {"veh_firefighter"},
     v2 |-> {"veh_ambulance", "veh_hazmat", "veh_police", NORMAL_VEHICLE_TYPE}]

\* every vehicle drives the route e0 -> (J1) -> e1 -> (J2) -> e2
Route == << e0, e1, e2 >>

\* traci.junction.getPosition
JunctionPos == [J1 |-> << 0, 0 >>, J2 |-> << 60, 0 >>]

\* The places of the road a vehicle is observed at, in driving order:
\*   1  on e0, exactly DETECTION_RADIUS from J1, nearer to J2 (curved road)
\*   2  inside J1 (internal edge), out of range of J2
\*   3  on e1, out of range of J1, close to J2
Places ==
    << [edge |-> e0,         index |-> 0, pos |-> << 40, -30 >>],
       [edge |-> internalJ1, index |-> 0, pos |-> << 0, 0 >>],
       [edge |-> e1,         index |-> 1, pos |-> << 55, 0 >>] >>

NumPlaces == Len(Places)

\* traci.trafficlight.getControlledLinks: per signal index the list of links
\* (from-lane, to-lane, via-lane); the via lane is "" where there is none.
ControlledLinks ==
    [J1 |-> << << << LaneOf(s0, "0"), LaneOf(e1, "0"), << >> >> >>,
               << << LaneOf(e0, "0"), LaneOf(e1, "0"), << >> >> >>,
               << << LaneOf(s1, "0"), LaneOf(e1, "0"), LaneOf(internalJ1, "0") >> >> >>,
     J2 |-> << << << LaneOf(s1, "0"), LaneOf(e2, "0"), LaneOf(internalJ1, "1") >> >>,
               << << LaneOf(e1, "0"), LaneOf(e2, "0"), << >> >>,
                  << LaneOf(e1, "0"), LaneOf(s0, "0"), << >> >> >>,
               << << LaneOf(e1, "1"), LaneOf(e2, "0"), << >> >> >> >>]

\* traci.trafficlight.getAllProgramLogics: the phases of each junction's
\* fixed-time program "0", with their signal strings and durations in steps
\* (phase k is the entry k+1)
ProgramLogic ==
    [J1 |-> << [state |-> << "G", "r", "r" >>, duration |-> 2],
               [state |-> << "r", "G", "G" >>, duration |-> 1] >>,
     J2 |-> << [state |-> << "G", "G", "r" >>, duration |-> 1] >>]

(* ------------------------------------------------------------------ *)
(* Python dictionaries: sequences of (key, value) entries in insertion *)
(* order (the order list(d.keys()) iterates in)                        *)
(* ------------------------------------------------------------------ *)

DictHas(d, k) == \E n \in 1..Len(d) : d[n].key = k

DictGet(d, k) == d[CHOOSE n \in 1..Len(d) : d[n].key = k].val

DictKeys(d) == [n \in 1..Len(d) |-> d[n].key]

\* del d[k]
DictDel(d, k) == SelectSeq(d, LAMBDA e : e.key # k)

\* a faulty assignment that appends the entry and keeps the old one
DictPut_keep(d, k, v) == Append(d, [key |-> k, val |-> v])

\* d[k] = v: an existing key keeps its place, a new key is appended
DictPut(d, k, v) ==
    IF DictHas(d, k)
    THEN [n \in 1..Len(d) |-> IF d[n].key = k THEN [key |-> k, val |-> v] ELSE d[n]]
    ELSE Append(d, [key |-> k, val |-> v])

(* ------------------------------------------------------------------ *)
(* String and geometry helpers                                         *)
(* ------------------------------------------------------------------ *)

RECURSIVE SplitHead(_)
\* s.split('_')[0]: the text before the first underscore
SplitHead(s) ==
    IF s = << >> \/ Head(s) = "_" THEN << >>
    ELSE << Head(s) >> \o SplitHead(Tail(s))

\* s.startswith(':')
StartsWithColon(s) == s # << >> /\ Head(s) = ":"

\* Python truthiness of a string
Truthy(s) == s # << >>

\* sumolib.geomhelper.distanceXY, squared: the code compares and sorts
\* distances only, and squaring keeps the order of non-negative numbers.
DistanceXY2(p, q) ==
    (p[1] - q[1]) * (p[1] - q[1]) + (p[2] - q[2]) * (p[2] - q[2])

RECURSIVE InsertByKey(_, _, _)
\* insert x into the sorted sequence s after every element whose key is <= its key
InsertByKey(s, x, k) ==
    IF s = << >> THEN << x >>
    ELSE IF Head(s)[k] <= x[k] THEN << Head(s) >> \o InsertByKey(Tail(s), x, k)
    ELSE << x >> \o s

\* a version that leaves the list in the order it came in
SortByKey_keepOrder(s, k) == s

RECURSIVE SortByKey(_, _)
\* list.sort(key=lambda x: x[k-1]): stable, ascending (k is the 1-based field)
SortByKey(s, k) ==
    IF s = << >> THEN << >>
    ELSE InsertByKey(SortByKey(SubSeq(s, 1, Len(s) - 1), k), s[Len(s)], k)

(* ------------------------------------------------------------------ *)
(* get_approaching_lane                                                *)
(* ------------------------------------------------------------------ *)

\* one link matches the vehicle's current or next edge
LinkMatches(link, current_edge, next_edge) ==
    \/ SplitHead(link[1]) = current_edge
    \/ (Truthy(next_edge) /\ SplitHead(link[1]) = next_edge)

RECURSIVE ScanLinks(_, _, _, _)
\* the index (0-based) of the first entry of controlled_links, from entry i on,
\* that holds a matching link
ScanLinks(controlled_links, i, current_edge, next_edge) ==
    IF i >= Len(controlled_links) THEN None
    ELSE IF \E n \in 1..Len(controlled_links[i + 1]) :
                LinkMatches(controlled_links[i + 1][n], current_edge, next_edge)
         THEN Some(i)
         ELSE ScanLinks(controlled_links, i + 1, current_edge, next_edge)

\* get_approaching_lane with the engine's answers as arguments; route_index is
\* 0-based as in Python
ApproachingLane(route, route_index, current_edge, controlled_links) ==
    IF route_index + 1 >= Len(route) THEN None
    ELSE ScanLinks(controlled_links, 0, current_edge,
                   IF route_index < Len(route) - 1 THEN route[route_index + 2] ELSE << >>)

(* ------------------------------------------------------------------ *)
(* State                                                               *)
(* ------------------------------------------------------------------ *)

VARIABLES
    \* the simulation engine
    vplace,                    \* vehicle -> place on the road, 0 = not in the simulation
    vclass,                    \* vehicle -> its class (traci.vehicle.getTypeID)
    tl,                        \* junction -> [program, phase, remaining, state]
    connected,                 \* traci.isConnected()
    nfaults,                   \* the number of calls that have raised so far
    \* the controller
    currently_preempted_tls,   \* dict tls_id -> (vehicle_id, priority, approach_lane)
    preemption_memory,         \* dict tls_id -> the state saved before the preemption
    pc,                        \* where run() stands
    emergency_vehicles,        \* the (veh_id, priority) pairs still to process in this step
    nearby_tls,                \* the (tls_id, distance, approach_lane) still to try
    veh,                       \* the (veh_id, priority) being processed
    \* observation of the last action and of the current step
    sent,                      \* the commands the last action sent to the engine
    ret,                       \* the last preempt_traffic_light call and its outcome
    baseline,                  \* junction -> the plan read when it left the Free state
    released,                  \* the junctions the last action restored, with what it used
    arbitrated,                \* the vehicles find_nearest_tls was run for in this step
    faulted,                   \* vehicles and junctions whose handling raised in this step
    at_step,                   \* currently_preempted_tls as the last step found it
    \* get_approaching_lane on its own
    in_route, in_index, in_edge, in_links, out_lane,
    \* the release of one junction on its own
    in_tls

engine == << vplace, vclass, tl, connected, nfaults >>

store == << currently_preempted_tls, preemption_memory >>

control == << pc, emergency_vehicles, nearby_tls, veh >>

observed == << sent, ret, baseline, released, arbitrated, faulted, at_step >>

resolver == << in_route, in_index, in_edge, in_links, out_lane, in_tls >>

vars == << engine, store, control, observed, resolver >>

\* the exceptions a TraCI call raises: a per-call error, the lost connection
ErrorKinds == { "TraCIException", "FatalTraCIError" }

NoCall == [result |-> "none"]

(* ------------------------------------------------------------------ *)
(* The engine's answers                                                *)
(* ------------------------------------------------------------------ *)

\* traci.vehicle.getIDList() as a sequence
LiveIDList == SelectSeq(VehicleIDs, LAMBDA v : vplace[v] # 0)

Live(v) == vplace[v] # 0

\* traci.vehicle.getPosition
VehiclePos(v) == Places[vplace[v]].pos

\* traci.vehicle.getRoadID
RoadID(v) == Places[vplace[v]].edge

\* traci.vehicle.getRouteIndex
RouteIndex(v) == Places[vplace[v]].index

Distance2(v, tls_id) == DistanceXY2(VehiclePos(v), JunctionPos[tls_id])

\* the plan of a junction: what getProgram, getPhase, getPhaseDuration and
\* getNextSwitch() - getTime() answer
Plan(j) ==
    [program |-> tl[j].program, phase |-> tl[j].phase,
     phase_duration |-> IF tl[j].program = "online" THEN 0
                        ELSE ProgramLogic[j][tl[j].phase + 1].duration,
     remaining_duration |-> tl[j].remaining]

\* one simulation step of a junction: a junction under a set state ("online")
\* keeps it, the others run their fixed-time program
AdvanceTL(j, t) ==
    IF t.program = "online" THEN t
    ELSE IF t.remaining > 1 THEN [t EXCEPT !.remaining = t.remaining - 1]
    ELSE LET k == (t.phase + 1) % Len(ProgramLogic[j])
         IN  [program |-> t.program, phase |-> k,
              remaining |-> ProgramLogic[j][k + 1].duration,
              state |-> ProgramLogic[j][k + 1].state]

\* traci.trafficlight.setRedYellowGreenState: the engine switches the junction to
\* the one-phase program "online" holding the given state
SetRedYellowGreenState(j, t, s) ==
    [program |-> "online", phase |-> 0, remaining |-> 0, state |-> s]

\* traci.trafficlight.setProgram
SetProgram(j, t, p) ==
    [t EXCEPT !.program = p, !.state = ProgramLogic[j][t.phase + 1].state]

\* traci.trafficlight.setPhase
SetPhase(j, t, k) ==
    [t EXCEPT !.phase = k, !.remaining = ProgramLogic[j][k + 1].duration,
              !.state = ProgramLogic[j][k + 1].state]

\* traci.trafficlight.setPhaseDuration
SetPhaseDuration(j, t, d) == [t EXCEPT !.remaining = d]

(* ------------------------------------------------------------------ *)
(* find_nearest_tls                                                    *)
(* ------------------------------------------------------------------ *)

get_approaching_lane(vehicle_id, tls_id) ==
    ApproachingLane(Route, RouteIndex(vehicle_id), RoadID(vehicle_id),
                    ControlledLinks[tls_id])

RECURSIVE NearbyFrom(_, _)
\* the loop over traci.trafficlight.getIDList() from junction n on
NearbyFrom(vehicle_id, n) ==
    IF n > Len(TLSIDs) THEN << >>
    ELSE LET tls_id == TLSIDs[n]
             distance == Distance2(vehicle_id, tls_id)
             approaching_lane == get_approaching_lane(vehicle_id, tls_id)
         IN  (IF distance <= DETECTION_RADIUS * DETECTION_RADIUS
                 /\ approaching_lane # None
              THEN << << tls_id, distance, approaching_lane[1] >> >>
              ELSE << >>)
             \o NearbyFrom(vehicle_id, n + 1)

find_nearest_tls(vehicle_id) ==
    IF StartsWithColon(RoadID(vehicle_id)) THEN << >>
    ELSE SortByKey(NearbyFrom(vehicle_id, 1), 2)

(* ------------------------------------------------------------------ *)
(* preempt_traffic_light                                               *)
(* ------------------------------------------------------------------ *)

\* a test that lets an equal priority displace the holder
Rejected_displaceEqual(tls_id, vehicle_priority) ==
    /\ DictHas(currently_preempted_tls, tls_id)
    /\ DictGet(currently_preempted_tls, tls_id)[2] < vehicle_priority

\* already preempted by a vehicle with equal or higher priority
Rejected(tls_id, vehicle_priority) ==
    /\ DictHas(currently_preempted_tls, tls_id)
    /\ DictGet(currently_preempted_tls, tls_id)[2] <= vehicle_priority

\* remember the current state before the preemption, once
Remember(tls_id) ==
    IF DictHas(preemption_memory, tls_id) THEN preemption_memory
    ELSE DictPut(preemption_memory, tls_id, Plan(tls_id))

\* a pattern that gives green to the approach lane only
OverrideState_approachOnly(controlled_links, approach_lane, num_links) ==
    [i \in 1..num_links |-> IF i - 1 = approach_lane THEN "g" ELSE "r"]

\* all red, then green for the approach lane and the links with a via lane
OverrideState(controlled_links, approach_lane, num_links) ==
    [i \in 1..num_links |->
        IF /\ i <= Len(controlled_links)
           /\ \E n \in 1..Len(controlled_links[i]) :
                  \/ i - 1 = approach_lane
                  \/ (Len(controlled_links[i][n]) > 2 /\ Truthy(controlled_links[i][n][3]))
        THEN "g" ELSE "r"]

\* a version that applies the new state before it tests the priority
preempt_traffic_light_applyFirst(tls_id, approach_lane, vehicle_id, vehicle_priority, fault) ==
    LET new_state == OverrideState(ControlledLinks[tls_id], approach_lane,
                                   Len(tl[tls_id].state))
        applied == SetRedYellowGreenState(tls_id, tl[tls_id], new_state)
        command == << [cmd |-> "setRedYellowGreenState", tls |-> tls_id,
                       arg |-> new_state] >>
    IN  IF fault # "none"
        THEN [result |-> "raise",
              memory |-> IF fault = "capture" THEN preemption_memory ELSE Remember(tls_id),
              preempted |-> currently_preempted_tls, tl |-> tl[tls_id], sent |-> << >>]
        ELSE IF Rejected(tls_id, vehicle_priority)
        THEN [result |-> "False", memory |-> Remember(tls_id),
              preempted |-> currently_preempted_tls, tl |-> applied, sent |-> command]
        ELSE [result |-> "True", memory |-> Remember(tls_id),
              preempted |-> DictPut(currently_preempted_tls, tls_id,
                                    << vehicle_id, vehicle_priority, approach_lane >>),
              tl |-> applied, sent |-> command]

\* The outcome of one call: what it returns ("raise" when a TraCI call of it
\* raises), the two dictionaries and the junction after it, the commands sent.
\* fault names the call that raises: "capture" one of the reads of the state to
\* remember, "apply" one of the calls after the state is remembered.
preempt_traffic_light(tls_id, approach_lane, vehicle_id, vehicle_priority, fault) ==
    IF Rejected(tls_id, vehicle_priority)
    THEN [result |-> "False", memory |-> preemption_memory,
          preempted |-> currently_preempted_tls, tl |-> tl[tls_id], sent |-> << >>]
    ELSE IF fault # "none"
    THEN [result |-> "raise",
          memory |-> IF fault = "capture" THEN preemption_memory ELSE Remember(tls_id),
          preempted |-> currently_preempted_tls, tl |-> tl[tls_id], sent |-> << >>]
    ELSE LET new_state == OverrideState(ControlledLinks[tls_id], approach_lane,
                                        Len(tl[tls_id].state))
         IN  [result |-> "True", memory |-> Remember(tls_id),
              preempted |-> DictPut(currently_preempted_tls, tls_id,
                                    << vehicle_id, vehicle_priority, approach_lane >>),
              tl |-> SetRedYellowGreenState(tls_id, tl[tls_id], new_state),
              sent |-> << [cmd |-> "setRedYellowGreenState", tls |-> tls_id,
                           arg |-> new_state] >>]

\* the calls of preempt_traffic_light that can raise for this request
PreemptFaults(tls_id, vehicle_priority) ==
    IF Rejected(tls_id, vehicle_priority) THEN { }
    ELSE IF DictHas(preemption_memory, tls_id) THEN { "apply" }
    ELSE { "capture", "apply" }

(* ------------------------------------------------------------------ *)
(* restore_traffic_light, is_emergency_vehicle_in_junction             *)
(* ------------------------------------------------------------------ *)

\* the three commands of a restore, in the order sent
RestoreCommands(tls_id, mem) ==
    << [cmd |-> "setProgram", tls |-> tls_id, arg |-> mem.program],
       [cmd |-> "setPhase", tls |-> tls_id, arg |-> mem.phase],
       [cmd |-> "setPhaseDuration", tls |-> tls_id, arg |-> mem.remaining_duration] >>

\* the engine's answer to one command
Apply(t, c) ==
    IF c.cmd = "setProgram" THEN SetProgram(c.tls, t, c.arg)
    ELSE IF c.cmd = "setPhase" THEN SetPhase(c.tls, t, c.arg)
    ELSE SetPhaseDuration(c.tls, t, c.arg)

RECURSIVE ApplyAll(_, _)
ApplyAll(t, cmds) ==
    IF cmds = << >> THEN t ELSE ApplyAll(Apply(t, Head(cmds)), Tail(cmds))

\* a version that resets a junction without a saved state to its program "0"
restore_traffic_light_resetFree(st, tls_id, fail) ==
    LET note(mem, complete) ==
            st.released \cup
                { [tls |-> tls_id,
                   holder |-> IF DictHas(st.preempted, tls_id)
                              THEN << DictGet(st.preempted, tls_id) >> ELSE << >>,
                   snapshot |-> mem, baseline |-> baseline[tls_id],
                   program |-> st.tl[tls_id].program,
                   complete |-> complete] }
        reset == << [cmd |-> "setProgram", tls |-> tls_id, arg |-> "0"] >>
    IN  IF DictHas(st.memory, tls_id)
        THEN LET mem == DictGet(st.memory, tls_id)
                 cmds == RestoreCommands(tls_id, mem)
                 done == IF fail = 0 THEN cmds ELSE SubSeq(cmds, 1, fail - 1)
                 after == [st EXCEPT !.tl[tls_id] = ApplyAll(st.tl[tls_id], done),
                                     !.sent = st.sent \o done]
             IN  IF fail # 0
                 THEN [after EXCEPT !.raised = TRUE,
                                    !.released = note(<< mem >>, FALSE)]
                 ELSE [after EXCEPT !.memory = DictDel(st.memory, tls_id),
                                    !.preempted = DictDel(st.preempted, tls_id),
                                    !.released = note(<< mem >>, TRUE)]
        ELSE [st EXCEPT !.preempted = DictDel(st.preempted, tls_id),
                        !.tl[tls_id] = ApplyAll(st.tl[tls_id], reset),
                        !.sent = st.sent \o reset,
                        !.released = note(<< >>, TRUE)]

\* a version that takes the saved state out of the dictionary before it
\* sends the commands (mem = preemption_memory.pop(tls_id))
restore_traffic_light_popFirst(st, tls_id, fail) ==
    LET note(mem, complete) ==
            st.released \cup
                { [tls |-> tls_id,
                   holder |-> IF DictHas(st.preempted, tls_id)
                              THEN << DictGet(st.preempted, tls_id) >> ELSE << >>,
                   snapshot |-> mem, baseline |-> baseline[tls_id],
                   program |-> st.tl[tls_id].program,
                   complete |-> complete] }
    IN  IF DictHas(st.memory, tls_id)
        THEN LET mem == DictGet(st.memory, tls_id)
                 cmds == RestoreCommands(tls_id, mem)
                 done == IF fail = 0 THEN cmds ELSE SubSeq(cmds, 1, fail - 1)
                 after == [st EXCEPT !.tl[tls_id] = ApplyAll(st.tl[tls_id], done),
                                     !.sent = st.sent \o done,
                                     !.memory = DictDel(st.memory, tls_id)]
             IN  IF fail # 0
                 THEN [after EXCEPT !.raised = TRUE,
                                    !.released = note(<< mem >>, FALSE)]
                 ELSE [after EXCEPT !.preempted = DictDel(st.preempted, tls_id),
                                    !.released = note(<< mem >>, TRUE)]
        ELSE [st EXCEPT !.preempted = DictDel(st.preempted, tls_id),
                        !.released = note(<< >>, TRUE)]

\* One call on the state st = [memory, preempted, tl, sent, released, raised];
\* fail = 0: no call raises; fail = c: the c-th restore command raises.
\* released notes the call: the junction, its record and snapshot, the plan it
\* had when it left the Free state, the program it ran when the call began, and
\* whether the call ran to its end.
restore_traffic_light(st, tls_id, fail) ==
    LET note(mem, complete) ==
            st.released \cup
                { [tls |-> tls_id,
                   holder |-> IF DictHas(st.preempted, tls_id)
                              THEN << DictGet(st.preempted, tls_id) >> ELSE << >>,
                   snapshot |-> mem, baseline |-> baseline[tls_id],
                   program |-> st.tl[tls_id].program,
                   complete |-> complete] }
    IN  IF DictHas(st.memory, tls_id)
        THEN LET mem == DictGet(st.memory, tls_id)
                 cmds == RestoreCommands(tls_id, mem)
                 done == IF fail = 0 THEN cmds ELSE SubSeq(cmds, 1, fail - 1)
                 after == [st EXCEPT !.tl[tls_id] = ApplyAll(st.tl[tls_id], done),
                                     !.sent = st.sent \o done]
             IN  IF fail # 0
                 THEN [after EXCEPT !.raised = TRUE,
                                    !.released = note(<< mem >>, FALSE)]
                 ELSE [after EXCEPT !.memory = DictDel(st.memory, tls_id),
                                    !.preempted = DictDel(st.preempted, tls_id),
                                    !.released = note(<< mem >>, TRUE)]
        ELSE [st EXCEPT !.preempted = DictDel(st.preempted, tls_id),
                        !.released = note(<< >>, TRUE)]

\* a check that releases a vehicle standing exactly at the radius
is_emergency_vehicle_in_junction_strict(tls_id) ==
    IF ~DictHas(currently_preempted_tls, tls_id) THEN FALSE
    ELSE LET vehicle_id == DictGet(currently_preempted_tls, tls_id)[1]
         IN  IF ~Live(vehicle_id) THEN FALSE
             ELSE Distance2(vehicle_id, tls_id) < DETECTION_RADIUS * DETECTION_RADIUS

\* a check that takes a holder missing from the vehicle list as present
is_emergency_vehicle_in_junction_keepDeparted(tls_id) ==
    IF ~DictHas(currently_preempted_tls, tls_id) THEN FALSE
    ELSE LET vehicle_id == DictGet(currently_preempted_tls, tls_id)[1]
         IN  IF ~Live(vehicle_id) THEN TRUE
             ELSE Distance2(vehicle_id, tls_id) <= DETECTION_RADIUS * DETECTION_RADIUS

\* is the vehicle that triggered the preemption still near the junction
is_emergency_vehicle_in_junction(tls_id) ==
    IF ~DictHas(currently_preempted_tls, tls_id) THEN FALSE
    ELSE LET vehicle_id == DictGet(currently_preempted_tls, tls_id)[1]
         IN  IF ~Live(vehicle_id) THEN FALSE
             ELSE Distance2(vehicle_id, tls_id) <= DETECTION_RADIUS * DETECTION_RADIUS

RECURSIVE RestoreEach(_, _, _, _)
\* the second loop of check_preempted_junctions: restore the junctions of the
\* list in order; the failAt-th restore raises at its failCmd-th command
\* (failAt = 0: none raises), and a raise ends the loop
RestoreEach(st, tls_to_restore, failAt, failCmd) ==
    IF tls_to_restore = << >> THEN st
    ELSE LET next == restore_traffic_light(st, Head(tls_to_restore),
                                           IF failAt = 1 THEN failCmd ELSE 0)
         IN  IF next.raised THEN next
             ELSE RestoreEach(next, Tail(tls_to_restore), failAt - 1, failCmd)

(* ------------------------------------------------------------------ *)
(* Initial state                                                       *)
(* ------------------------------------------------------------------ *)

NoInputs ==
    /\ in_route = << >>
    /\ in_index = 0
    /\ in_edge = << >>
    /\ in_links = << >>
    /\ out_lane = None
    /\ in_tls = ""

Init ==
    /\ vplace = [v \in Vehicles |-> 0]
    /\ vclass = [v \in Vehicles |-> ""]
    /\ tl = [j \in Junctions |->
                [program |-> "0", phase |-> 0,
                 remaining |-> ProgramLogic[j][1].duration,
                 state |-> ProgramLogic[j][1].state]]
    /\ connected = TRUE
    /\ nfaults = 0
    /\ currently_preempted_tls = << >>
    /\ preemption_memory = << >>
    /\ pc = "loop"
    /\ emergency_vehicles = << >>
    /\ nearby_tls = << >>
    /\ veh = << >>
    /\ sent = << >>
    /\ ret = NoCall
    /\ baseline = [j \in Junctions |-> << >>]
    /\ released = { }
    /\ arbitrated = { }
    /\ faulted = { }
    /\ at_step = << >>
    /\ NoInputs

(* ------------------------------------------------------------------ *)
(* run: the control loop                                               *)
(* ------------------------------------------------------------------ *)

\* where a vehicle may be after one simulation step: it stays, drives on to the
\* next place, or leaves the simulation; a vehicle not yet inserted may enter
NextPlaces(v) ==
    { vplace[v], 0 } \cup (IF vplace[v] < NumPlaces THEN { vplace[v] + 1 } ELSE { })

\* after the override attempts of a step: the release check comes next
AfterVehicle(rest) == IF rest = << >> THEN "check" ELSE "vehicles"

\* a TraCI call raises: the engine may do so MaxFaults times in a run
Raises == nfaults < MaxFaults /\ nfaults' = nfaults + 1

\* a version that goes on with the release check after the error
DropStep_resume(kind) ==
    /\ pc' = "check"
    /\ emergency_vehicles' = << >>
    /\ nearby_tls' = << >>
    /\ veh' = << >>
    /\ connected' = (connected /\ kind # "FatalTraCIError")

\* the except clause of run(): the rest of the step is dropped
DropStep(kind) ==
    /\ pc' = "loop"
    /\ emergency_vehicles' = << >>
    /\ nearby_tls' = << >>
    /\ veh' = << >>
    /\ connected' = (connected /\ kind # "FatalTraCIError")

\* traci.simulationStep(): the engine moves the vehicles and the signal plans
SimulationStep ==
    /\ pc = "loop"
    /\ connected
    /\ \E np \in [Vehicles -> 0..NumPlaces] :
          /\ \A v \in Vehicles : np[v] \in NextPlaces(v)
          /\ vplace' = np
          /\ \E nc \in [Vehicles -> UNION { Fleet[v] : v \in Vehicles } \cup { "" }] :
                /\ \A v \in Vehicles :
                      IF np[v] = 0 THEN nc[v] = ""
                      ELSE IF vplace[v] = 0 THEN nc[v] \in Fleet[v]
                      ELSE nc[v] = vclass[v]
                /\ vclass' = nc
    /\ tl' = [j \in Junctions |-> AdvanceTL(j, tl[j])]
    /\ pc' = "identify"
    /\ sent' = << >>
    /\ ret' = NoCall
    /\ released' = { }
    /\ arbitrated' = { }
    /\ faulted' = { }
    /\ at_step' = currently_preempted_tls
    /\ UNCHANGED << connected, nfaults, store, emergency_vehicles, nearby_tls, veh,
                    baseline, resolver >>

\* a version that takes every live vehicle, a class outside the table at rank 0
EmergencyPairs_all ==
    [n \in 1..Len(LiveIDList) |->
        << LiveIDList[n],
           IF vclass[LiveIDList[n]] \in DOMAIN EMERGENCY_VEHICLE_TYPES
           THEN EMERGENCY_VEHICLE_TYPES[vclass[LiveIDList[n]]] ELSE 0 >>]

\* the (veh_id, priority) pairs of the vehicles of a known emergency class
EmergencyPairs ==
    LET ids == SelectSeq(LiveIDList, LAMBDA v : vclass[v] \in DOMAIN EMERGENCY_VEHICLE_TYPES)
    IN  [n \in 1..Len(ids) |-> << ids[n], EMERGENCY_VEHICLE_TYPES[vclass[ids[n]]] >>]

\* process_emergency_vehicles, first part: identify and sort the emergency
\* vehicles.  A raise of getIDList or getTypeID is not caught here and ends
\* the step.
Identify ==
    /\ pc = "identify"
    /\ \/ /\ emergency_vehicles' = SortByKey(EmergencyPairs, 2)
          /\ pc' = AfterVehicle(emergency_vehicles')
          /\ UNCHANGED << connected, nfaults, nearby_tls, veh, faulted >>
       \/ \E v \in Vehicles, kind \in ErrorKinds :
             /\ Live(v)
             /\ Raises
             /\ faulted' = faulted \cup { v }
             /\ DropStep(kind)
       \/ \E kind \in ErrorKinds :
             /\ Raises
             /\ faulted' = faulted \cup { "getIDList" }
             /\ DropStep(kind)
    /\ sent' = << >>
    /\ ret' = NoCall
    /\ released' = { }
    /\ at_step' = at_step
    /\ UNCHANGED << vplace, vclass, tl, store, baseline, arbitrated, resolver >>

\* the loop body of process_emergency_vehicles up to find_nearest_tls
FindNearest ==
    /\ pc = "vehicles"
    /\ LET v == Head(emergency_vehicles)
           rest == Tail(emergency_vehicles)
       IN  \/ /\ nearby_tls' = find_nearest_tls(v[1])
              /\ veh' = v
              /\ emergency_vehicles' = rest
              /\ arbitrated' = arbitrated \cup { v[1] }
              /\ pc' = IF nearby_tls' = << >> THEN AfterVehicle(rest) ELSE "candidates"
              /\ UNCHANGED << connected, nfaults, faulted >>
           \/ /\ Raises
              /\ nearby_tls' = << >>
              /\ veh' = v
              /\ emergency_vehicles' = rest
              /\ faulted' = faulted \cup { v[1] }
              /\ pc' = AfterVehicle(rest)
              /\ UNCHANGED << connected, arbitrated >>
           \/ /\ Raises
              /\ faulted' = faulted \cup { v[1] }
              /\ DropStep("FatalTraCIError")
              /\ UNCHANGED arbitrated
    /\ sent' = << >>
    /\ ret' = NoCall
    /\ released' = { }
    /\ at_step' = at_step
    /\ UNCHANGED << vplace, vclass, tl, store, baseline, resolver >>

\* one preempt_traffic_light call of the loop over nearby_tls
Preempt ==
    /\ pc = "candidates"
    /\ LET c == Head(nearby_tls)
           tls_id == c[1]
           approach_lane == c[3]
       IN  \E fault \in { "none" } \cup PreemptFaults(tls_id, veh[2]), kind \in ErrorKinds :
             LET out == preempt_traffic_light(tls_id, approach_lane, veh[1], veh[2], fault)
             IN  /\ fault = "none" => kind = "TraCIException"
                 /\ preemption_memory' = out.memory
                 /\ currently_preempted_tls' = out.preempted
                 /\ tl' = [tl EXCEPT ![tls_id] = out.tl]
                 /\ sent' = out.sent
                 /\ ret' = [result |-> out.result, tls_id |-> tls_id,
                            approach_lane |-> approach_lane, vehicle_id |-> veh[1],
                            vehicle_priority |-> veh[2],
                            holder |-> IF DictHas(currently_preempted_tls, tls_id)
                                       THEN << DictGet(currently_preempted_tls, tls_id) >>
                                       ELSE << >>]
                 /\ baseline' = IF out.result = "True"
                                   /\ ~DictHas(currently_preempted_tls, tls_id)
                                THEN [baseline EXCEPT ![tls_id] = << Plan(tls_id) >>]
                                ELSE baseline
                 /\ IF out.result # "raise"
                    THEN /\ nearby_tls' = Tail(nearby_tls)
                         /\ pc' = IF nearby_tls' = << >>
                                  THEN AfterVehicle(emergency_vehicles) ELSE "candidates"
                         /\ UNCHANGED << connected, nfaults, emergency_vehicles, veh,
                                         faulted >>
                    ELSE IF kind = "TraCIException"
                    THEN /\ Raises
                         /\ nearby_tls' = << >>
                         /\ pc' = AfterVehicle(emergency_vehicles)
                         /\ faulted' = faulted \cup { veh[1], tls_id }
                         /\ UNCHANGED << connected, emergency_vehicles, veh >>
                    ELSE /\ Raises
                         /\ faulted' = faulted \cup { veh[1], tls_id }
                         /\ DropStep(kind)
    /\ released' = { }
    /\ at_step' = at_step
    /\ UNCHANGED << vplace, vclass, arbitrated, resolver >>

\* check_preempted_junctions, whole: the release checks, then the restores.
\* Nothing in it catches an error: a raise ends the function and the step.
CheckPreempted ==
    /\ pc = "check"
    /\ LET keys == DictKeys(currently_preempted_tls)
           tls_to_restore == SelectSeq(keys, LAMBDA k : ~is_emergency_vehicle_in_junction(k))
           st0 == [memory |-> preemption_memory, preempted |-> currently_preempted_tls,
                   tl |-> tl, sent |-> << >>, released |-> { }, raised |-> FALSE]
       IN  \/ \* no call raises
              LET st == RestoreEach(st0, tls_to_restore, 0, 0)
              IN  /\ preemption_memory' = st.memory
                  /\ currently_preempted_tls' = st.preempted
                  /\ tl' = st.tl
                  /\ sent' = st.sent
                  /\ released' = st.released
                  /\ UNCHANGED << connected, nfaults, faulted >>
           \/ \* a call of the release check of the k-th junction raises
              \E k \in 1..Len(keys), kind \in ErrorKinds :
                  /\ Raises
                  /\ sent' = << >>
                  /\ released' = { }
                  /\ faulted' = faulted \cup { keys[k] }
                  /\ connected' = (connected /\ kind # "FatalTraCIError")
                  /\ UNCHANGED << store, tl >>
           \/ \* the c-th command of the n-th restore raises
              \E n \in 1..Len(tls_to_restore), c \in 1..3, kind \in ErrorKinds :
                  LET st == RestoreEach(st0, tls_to_restore, n, c)
                  IN  /\ Raises
                      /\ preemption_memory' = st.memory
                      /\ currently_preempted_tls' = st.preempted
                      /\ tl' = st.tl
                      /\ sent' = st.sent
                      /\ released' = st.released
                      /\ faulted' = faulted \cup { tls_to_restore[n] }
                      /\ connected' = (connected /\ kind # "FatalTraCIError")
    /\ baseline' = [j \in Junctions |->
                       IF DictHas(currently_preempted_tls', j) THEN baseline[j] ELSE << >>]
    /\ pc' = "loop"
    /\ ret' = NoCall
    /\ at_step' = at_step
    /\ UNCHANGED << vplace, vclass, emergency_vehicles, nearby_tls, veh, arbitrated,
                    resolver >>

\* the end of run(): the loop is left when no vehicle is expected any more, or
\* with the FatalTraCIError the next call raises on a lost connection; the
\* connection is closed
Finish ==
    /\ pc = "loop"
    /\ (~connected \/ \A v \in Vehicles : ~Live(v))
    /\ pc' = "done"
    /\ connected' = FALSE
    /\ sent' = << >>
    /\ ret' = NoCall
    /\ released' = { }
    /\ UNCHANGED << vplace, vclass, tl, nfaults, store, emergency_vehicles, nearby_tls,
                    veh, baseline, arbitrated, faulted, at_step, resolver >>

Next ==
    \/ SimulationStep
    \/ Identify
    \/ FindNearest
    \/ Preempt
    \/ CheckPreempted
    \/ Finish

Spec == Init /\ [][Next]_vars

\* run() is one sequential loop: the program does not pause at the top of the
\* loop or inside process_emergency_vehicles (no step of these is postponed
\* forever); what the engine answers and whether the loop is left stay free
SpecLive ==
    /\ Init /\ [][Next]_vars
    /\ WF_vars(SimulationStep \/ Finish)
    /\ WF_vars(Identify)
    /\ WF_vars(FindNearest)
    /\ WF_vars(Preempt)

(* ------------------------------------------------------------------ *)
(* get_approaching_lane on its own, on inputs drawn from bounded sets  *)
(* ------------------------------------------------------------------ *)

\* the edges of the drawn routes and the lanes of the drawn links
InputEdges == { e0, e1 }

InputLanes == { LaneOf(e0, "0"), LaneOf(e1, "0"), LaneOf(s0, "0") }

\* the sequences over S of a length from lo to hi
SeqsOf(S, lo, hi) == UNION { [1..n -> S] : n \in lo..hi }

\* one entry of getControlledLinks: no link or one link from a drawn lane
InputEntries ==
    { << >> } \cup { << << from, LaneOf(e2, "0"), << >> >> >> : from \in InputLanes }

InitResolve ==
    /\ vplace = [v \in Vehicles |-> 0]
    /\ vclass = [v \in Vehicles |-> ""]
    /\ tl = [j \in Junctions |->
                [program |-> "0", phase |-> 0,
                 remaining |-> ProgramLogic[j][1].duration,
                 state |-> ProgramLogic[j][1].state]]
    /\ connected = TRUE
    /\ nfaults = 0
    /\ currently_preempted_tls = << >>
    /\ preemption_memory = << >>
    /\ pc = "resolve"
    /\ emergency_vehicles = << >>
    /\ nearby_tls = << >>
    /\ veh = << >>
    /\ sent = << >>
    /\ ret = NoCall
    /\ baseline = [j \in Junctions |-> << >>]
    /\ released = { }
    /\ arbitrated = { }
    /\ faulted = { }
    /\ at_step = << >>
    /\ in_route \in SeqsOf(InputEdges, 1, MaxRoute)
    /\ in_index \in 0..(Len(in_route) - 1)
    \* a vehicle that is not inside a junction is on the edge its route index names
    /\ in_edge = in_route[in_index + 1]
    /\ in_links \in SeqsOf(InputEntries, 0, MaxLinks)
    /\ out_lane = None
    /\ in_tls = ""

\* one call of get_approaching_lane
Resolve ==
    /\ pc = "resolve"
    /\ out_lane' = ApproachingLane(in_route, in_index, in_edge, in_links)
    /\ pc' = "resolved"
    /\ UNCHANGED << engine, store, emergency_vehicles, nearby_tls, veh, observed,
                    in_route, in_index, in_edge, in_links, in_tls >>

NextResolve == Resolve

SpecResolve == InitResolve /\ [][NextResolve]_vars

(* ------------------------------------------------------------------ *)
(* The release of one junction on its own, on stores drawn from        *)
(* bounded sets                                                        *)
(* ------------------------------------------------------------------ *)

\* the records and the saved states of the drawn stores
InputRecords == { << "v1", 2, 1 >>, << "v2", 1, 1 >>, << "v2", 3, 0 >> }

InputSnapshots(j) ==
    UNION { { [program |-> "0", phase |-> k - 1,
               phase_duration |-> ProgramLogic[j][k].duration,
               remaining_duration |-> d] : d \in 1..ProgramLogic[j][k].duration }
            : k \in 1..Len(ProgramLogic[j]) }

\* the orders the junction ids can have been inserted in
KeyOrders ==
    { ks \in SeqsOf(Junctions, 0, Len(TLSIDs)) :
          \A a, b \in 1..Len(ks) : a # b => ks[a] # ks[b] }

\* the dictionaries with the given keys in the given order, the value of key j
\* drawn from values[j]
DictsOver(ks, values) ==
    { d \in [1..Len(ks) -> UNION { [key : { j }, val : values[j]] : j \in Junctions }] :
          \A n \in 1..Len(ks) : d[n].key = ks[n] }

InputRecordsOf(j) == InputRecords

\* a junction under a record shows the override pattern of the record's lane
InputTL(preempted, j) ==
    IF DictHas(preempted, j)
    THEN SetRedYellowGreenState(j, tl[j],
             OverrideState(ControlledLinks[j], DictGet(preempted, j)[3],
                           Len(ProgramLogic[j][1].state)))
    ELSE [program |-> "0", phase |-> 0,
          remaining |-> ProgramLogic[j][1].duration,
          state |-> ProgramLogic[j][1].state]

InitRelease ==
    /\ vplace \in [Vehicles -> { 0, 1 }]
    /\ vclass = [v \in Vehicles |->
                    IF vplace[v] = 0 THEN ""
                    ELSE IF v = "v1" THEN "veh_firefighter" ELSE "veh_ambulance"]
    /\ currently_preempted_tls \in UNION { DictsOver(ks, [j \in Junctions |-> InputRecordsOf(j)]) : ks \in KeyOrders }
    /\ preemption_memory \in UNION { DictsOver(ks, [j \in Junctions |-> InputSnapshots(j)]) : ks \in KeyOrders }
    \* restore_traffic_light deletes the saved state before the record
    /\ \A j \in Junctions :
          DictHas(currently_preempted_tls, j) => DictHas(preemption_memory, j)
    /\ tl = [j \in Junctions |-> InputTL(currently_preempted_tls, j)]
    /\ connected = TRUE
    /\ nfaults = 0
    /\ pc = "release"
    /\ emergency_vehicles = << >>
    /\ nearby_tls = << >>
    /\ veh = << >>
    /\ sent = << >>
    /\ ret = NoCall
    /\ baseline = [j \in Junctions |-> << >>]
    /\ released = { }
    /\ arbitrated = { }
    /\ faulted = { }
    /\ at_step = << >>
    /\ in_route = << >>
    /\ in_index = 0
    /\ in_edge = << >>
    /\ in_links = << >>
    /\ out_lane = None
    /\ in_tls \in Junctions

\* the body of check_preempted_junctions for the one junction in_tls, run
\* twice in succession; released collects the notes of both runs
Release ==
    /\ pc \in { "release", "released1" }
    /\ LET st0 == [memory |-> preemption_memory, preempted |-> currently_preempted_tls,
                   tl |-> tl, sent |-> << >>, released |-> released, raised |-> FALSE]
           st == IF is_emergency_vehicle_in_junction(in_tls) THEN st0
                 ELSE restore_traffic_light(st0, in_tls, 0)
       IN  /\ preemption_memory' = st.memory
           /\ currently_preempted_tls' = st.preempted
           /\ tl' = st.tl
           /\ sent' = st.sent
           /\ released' = st.released
    /\ pc' = IF pc = "release" THEN "released1" ELSE "released2"
    /\ UNCHANGED << vplace, vclass, connected, nfaults, emergency_vehicles, nearby_tls,
                    veh, ret, baseline, arbitrated, faulted, at_step, resolver >>

NextRelease == Release

SpecRelease == InitRelease /\ [][NextRelease]_vars

(* ------------------------------------------------------------------ *)
(* Properties                                                          *)
(* ------------------------------------------------------------------ *)

\* the last action was a preempt_traffic_light call
Called == ret.result # "none"

\* the junction is Overridden: it has an OverrideRecord
Overridden(j) == DictHas(currently_preempted_tls, j)

\* the junction has a Snapshot
HasSnapshot(j) == DictHas(preemption_memory, j)

\* the requester named in the junction's record is not in the live list, or is
\* farther from the junction than the detection radius
HolderGone(j) ==
    LET holder == DictGet(currently_preempted_tls, j)[1]
    IN  \/ \A n \in 1..Len(LiveIDList) : LiveIDList[n] # holder
        \/ Distance2(holder, j) > DETECTION_RADIUS * DETECTION_RADIUS

\* C1 - Priority monotonicity: where the junction already had an OverrideRecord,
\* a call by a requester of rank p replaces the record only if p is strictly
\* smaller than the stored rank; with an equal or larger rank the call returns
\* false and the stored holder stays.
C1_PriorityMonotonicity ==
    (Called /\ ret.holder # << >>) =>
        LET stored == ret.holder[1]
            now == DictGet(currently_preempted_tls, ret.tls_id)
        IN  /\ Overridden(ret.tls_id)
            /\ ret.vehicle_priority >= stored[2] => (ret.result = "False" /\ now = stored)
            /\ now # stored => ret.vehicle_priority < stored[2]
            /\ ret.result = "True" =>
                   now = << ret.vehicle_id, ret.vehicle_priority, ret.approach_lane >>

\* C1 witness: another requester of the holder's own rank was turned away.
C1_Witness ==
    /\ Called
    /\ ret.holder # << >>
    /\ ret.holder[1][1] # ret.vehicle_id
    /\ ret.holder[1][2] = ret.vehicle_priority
    /\ ret.result = "False"

\* C4 - Record/Snapshot pairing: in every state a junction has a Snapshot if
\* and only if it has an OverrideRecord, also after a call that failed partway.
C4_PairingInvariant ==
    \A j \in Junctions : HasSnapshot(j) <=> Overridden(j)

\* the link list of signal index i (0-based) holds a link with a via lane: the
\* compatible-with-default-green flag
Compatible(j, i) ==
    \E n \in 1..Len(ControlledLinks[j][i + 1]) : ControlledLinks[j][i + 1][n][3] # << >>

\* C5 - Override pattern: after a successful call the junction's signal string
\* is green at the requested approach index and at every index whose link
\* carries the compatible flag, and red at every other index.
C5_OverridePattern ==
    (Called /\ ret.result = "True") =>
        LET state == tl[ret.tls_id].state
        IN  /\ Len(state) = Len(ControlledLinks[ret.tls_id])
            /\ \A i \in 0..(Len(state) - 1) :
                  state[i + 1] = IF i = ret.approach_lane \/ Compatible(ret.tls_id, i)
                                 THEN "g" ELSE "r"

\* C5 witness: a successful override whose pattern has a green approach, a
\* green compatible link and a red link.
C5_Witness ==
    /\ Called
    /\ ret.result = "True"
    /\ \E i, k, m \in 0..(Len(ControlledLinks[ret.tls_id]) - 1) :
          /\ i = ret.approach_lane /\ ~Compatible(ret.tls_id, i)
          /\ k # i /\ Compatible(ret.tls_id, k)
          /\ tl[ret.tls_id].state[m + 1] = "r"

\* C6 - A rejected call is a no-op: when the call returns false the signal
\* strings, the OverrideRecords and the Snapshots of all junctions are
\* unchanged and no command is sent to the engine.
C6_RejectedIsNoOp ==
    [][(pc = "candidates" /\ ret'.result = "False") =>
          /\ UNCHANGED << tl, currently_preempted_tls, preemption_memory >>
          /\ sent' = << >>]_vars

\* C6 witness: a call was rejected while both junctions were Overridden.
C6_Witness ==
    /\ Called
    /\ ret.result = "False"
    /\ \A j \in Junctions : Overridden(j)
    /\ sent = << >>

\* C7 - Mutual exclusion: in every state there is at most one OverrideRecord
\* per junction.
C7_MutualExclusion ==
    \A j \in Junctions :
        Cardinality({ n \in 1..Len(currently_preempted_tls) :
                          currently_preempted_tls[n].key = j }) <= 1

\* C7 witness: a more urgent requester took over a junction another held.
C7_Witness ==
    /\ Called
    /\ ret.result = "True"
    /\ ret.holder # << >>
    /\ ret.holder[1][1] # ret.vehicle_id

\* the restore commands among the commands the last action sent
IsRestoreCommand(c) == c.cmd \in { "setProgram", "setPhase", "setPhaseDuration" }

\* the value a restore command carries, taken from a saved plan
CarriedBy(c, plan) ==
    IF c.cmd = "setProgram" THEN plan.program
    ELSE IF c.cmd = "setPhase" THEN plan.phase
    ELSE plan.remaining_duration

\* C2 - Snapshot stability under chaining: while a junction is Overridden its
\* Snapshot is the plan (program id, phase index, remaining duration) the
\* junction had before the first override of the sequence, whatever
\* displacements followed, and every restore command reapplies that plan.
C2_SnapshotStability ==
    /\ \A j \in Junctions :
          Overridden(j) =>
              /\ HasSnapshot(j)
              /\ baseline[j] # << >>
              /\ DictGet(preemption_memory, j) = baseline[j][1]
    /\ \A n \in 1..Len(sent) :
          IsRestoreCommand(sent[n]) =>
              \E r \in released :
                  /\ r.tls = sent[n].tls
                  /\ r.baseline # << >>
                  /\ sent[n].arg = CarriedBy(sent[n], r.baseline[1])

\* C3 - Release correctness: in every step in which the holder of a
\* junction's Record is absent from the live list or farther from the junction
\* than the detection radius, the junction is Free at the end of that step (no
\* Record, no Snapshot), and the restore commands sent carried the snapshot's
\* program id, phase index and remaining duration.
C3_ReleaseCorrectness ==
    pc = "loop" =>
        /\ \A j \in Junctions : Overridden(j) => ~HolderGone(j)
        /\ \A r \in released : ~Overridden(r.tls) /\ ~HasSnapshot(r.tls)
        /\ \A n \in 1..Len(sent) :
              IsRestoreCommand(sent[n]) =>
                  \E r \in released :
                      /\ r.tls = sent[n].tls
                      /\ r.snapshot # << >>
                      /\ sent[n].arg = CarriedBy(sent[n], r.snapshot[1])

\* the live vehicles of a class of the priority table
Prioritized == { v \in Vehicles : Live(v) /\ vclass[v] \in DOMAIN EMERGENCY_VEHICLE_TYPES }

\* C8 - Error contract: a per-call error while one requester or junction is
\* handled does not abort the step: at the end of a step in which the
\* connection was not lost, every other prioritized requester was arbitrated
\* and every other Overridden junction was release-checked and restored if due.
C8_StepNotAborted ==
    (pc = "loop" /\ connected) =>
        /\ \A v \in Prioritized : v \in arbitrated \/ v \in faulted
        /\ \A j \in Junctions : (Overridden(j) /\ HolderGone(j)) => j \in faulted

\* C10 - No premature release: a junction leaves the Overridden state only in
\* the release check of a step in which its holder is absent or strictly
\* farther than the radius; otherwise its Record and Snapshot are kept and no
\* restore command is sent for it.
C10_NoPrematureRelease ==
    [][\A j \in Junctions :
          (Overridden(j) /\ ~(pc = "check" /\ HolderGone(j))) =>
              /\ Overridden(j)'
              /\ HasSnapshot(j)'
              /\ HasSnapshot(j)
              /\ DictGet(preemption_memory, j)' = DictGet(preemption_memory, j)
              /\ \A n \in 1..Len(sent') :
                    ~(IsRestoreCommand(sent'[n]) /\ sent'[n].tls = j)]_vars

\* C10 witness: the release check of a step kept a junction whose holder
\* stood exactly at the detection radius.
C10_Witness ==
    /\ pc = "loop"
    /\ arbitrated # { }
    /\ faulted = { }
    /\ \E j \in Junctions :
          /\ Overridden(j)
          /\ HasSnapshot(j)
          /\ Live(DictGet(currently_preempted_tls, j)[1])
          /\ Distance2(DictGet(currently_preempted_tls, j)[1], j)
                 = DETECTION_RADIUS * DETECTION_RADIUS

\* the edge of a lane id: the id without its "_<lane index>" suffix
SourceSegment(lane) == SubSeq(lane, 1, Len(lane) - 2)

\* the next segment of the drawn route, << >> on the last segment
NextSegment ==
    IF in_index + 2 <= Len(in_route) THEN in_route[in_index + 2] ELSE << >>

\* signal index i (0-based) holds a link whose source segment is the
\* requester's current segment or its next route segment
Matching(i) ==
    \E n \in 1..Len(in_links[i + 1]) :
        LET source == SourceSegment(in_links[i + 1][n][1])
        IN  source = in_edge \/ (NextSegment # << >> /\ source = NextSegment)

\* the index of the first matching entry, None when no entry matches
FirstMatching ==
    IF \E i \in 0..(Len(in_links) - 1) : Matching(i)
    THEN Some(CHOOSE i \in 0..(Len(in_links) - 1) :
                  Matching(i) /\ \A k \in 0..(i - 1) : ~Matching(k))
    ELSE None

\* C9 - Approach resolution: resolve returns the index of the first
\* controlled link whose source segment is the requester's current segment or
\* its next route segment, and none only when no link matches; on the last
\* segment of the route a link whose source is the current segment is still
\* returned.
C9_ApproachResolution ==
    pc = "resolved" => out_lane = FirstMatching

\* the note restore_traffic_light leaves when it is called on a Free junction
FreeNote(j) ==
    [tls |-> j, holder |-> << >>, snapshot |-> << >>, baseline |-> << >>,
     program |-> tl[j].program, complete |-> TRUE]

\* C11 - Idempotence of release: the release check and restore run on a
\* junction that is Free (no Record, no Snapshot), the first time and again
\* the second time, send no command and change no Store entry.
C11_ReleaseIdempotent ==
    [][(/\ pc \in { "release", "released1" }
        /\ ~Overridden(in_tls)
        /\ ~HasSnapshot(in_tls)) =>
          /\ currently_preempted_tls' = currently_preempted_tls
          /\ preemption_memory' = preemption_memory
          /\ tl' = tl
          /\ sent' = << >>]_vars

\* C11 witness: both runs were on a Free junction, while the other junction
\* had a Record and a Snapshot that are still there.
C11_Witness ==
    /\ pc = "released2"
    /\ released = { FreeNote(in_tls) }
    /\ sent = << >>
    /\ \E j \in Junctions : j # in_tls /\ Overridden(j) /\ HasSnapshot(j)

\* C12 - Only table classes are arbitrated: a record enters the Store or
\* changes only by a successful call for a requester whose class is in the
\* priority table at that moment, and the stored priority is the table's rank
\* for that class.
C12_OnlyTableClasses ==
    [][\A j \in Junctions :
          Overridden(j)' =>
              \/ /\ Overridden(j)
                 /\ DictGet(currently_preempted_tls, j)' = DictGet(currently_preempted_tls, j)
              \/ /\ Called'
                 /\ ret'.result = "True"
                 /\ ret'.tls_id = j
                 /\ DictGet(currently_preempted_tls, j)'[1] = ret'.vehicle_id
                 /\ vclass'[ret'.vehicle_id] \in DOMAIN EMERGENCY_VEHICLE_TYPES
                 /\ DictGet(currently_preempted_tls, j)'[2]
                        = EMERGENCY_VEHICLE_TYPES[vclass'[ret'.vehicle_id]]]_vars

\* C12 witness: a step ended in which a passenger car stood in range of the
\* junctions, was not arbitrated, and a table-class requester holds a record.
C12_Witness ==
    /\ pc = "loop"
    /\ faulted = { }
    /\ vclass["v2"] = NORMAL_VEHICLE_TYPE
    /\ vplace["v2"] = 1
    /\ "v2" \notin arbitrated
    /\ "v1" \in arbitrated
    /\ \E j \in Junctions : Overridden(j) /\ DictGet(currently_preempted_tls, j)[1] = "v1"

\* the step of run() that ends the control work of a simulation step
EndsStep == pc \notin { "loop", "done" } /\ pc' = "loop"

\* find_nearest_tls offers the junction to the vehicle: in range, not inside a
\* junction, on a controlled approach
Offers(v, j) ==
    \E n \in 1..Len(find_nearest_tls(v)) : find_nearest_tls(v)[n][1] = j

\* C13 - Overrides before releases: if in a step a prioritized requester is in
\* range of a junction K that was Free when the step began, on a controlled
\* approach (and no other prioritized requester is offered K), and is beyond
\* the radius of a junction J it holds, then when the step ends K is
\* Overridden by that requester and J is Free, its Snapshot restored and gone.
C13_OverrideThenRelease ==
    [][EndsStep =>
          \A v \in Prioritized : \A K, J \in Junctions :
              (/\ ~DictHas(at_step, K)
               /\ Offers(v, K)
               /\ \A w \in Prioritized : w # v => ~Offers(w, K)
               /\ DictHas(at_step, J)
               /\ DictGet(at_step, J)[1] = v
               /\ Distance2(v, J) > DETECTION_RADIUS * DETECTION_RADIUS) =>
                  /\ Overridden(K)'
                  /\ DictGet(currently_preempted_tls, K)'[1] = v
                  /\ ~Overridden(J)'
                  /\ ~HasSnapshot(J)']_vars

\* the place of a vehicle in the live list
ListPos(v) == CHOOSE n \in 1..Len(VehicleIDs) : VehicleIDs[n] = v

\* the (veh_id, priority) pair a comes before b: smaller rank, or equal rank
\* and earlier in the live list
Precedes(a, b) ==
    \/ a[2] < b[2]
    \/ a[2] = b[2] /\ ListPos(a[1]) < ListPos(b[1])

\* the requesters are taken in ascending rank, ties in live-list order: the
\* one in work comes before those still to process, and these are in order
InArbitrationOrder ==
    /\ \A n \in 1..(Len(emergency_vehicles) - 1) :
          Precedes(emergency_vehicles[n], emergency_vehicles[n + 1])
    /\ (pc = "candidates" /\ emergency_vehicles # << >>) =>
          Precedes(veh, Head(emergency_vehicles))

\* the requesters find_nearest_tls was run for in this step and offered j
Contenders(j) == { v \in arbitrated : Offers(v, j) }

\* the record of j names v, or a requester that comes before v
WinsOver(j, v) ==
    LET h == DictGet(currently_preempted_tls, j)
    IN  h[1] = v \/ Precedes(h, << v, EMERGENCY_VEHICLE_TYPES[vclass[v]] >>)

\* C14 as claimed - Arbitration order: requesters are processed in ascending
\* rank, ties in live-list order, and when several requesters resolve an
\* approach to a junction that was Free when the step began, the record at
\* the end of arbitration names the one of smallest rank, among equal ranks
\* the one listed first.
C14_ArbitrationOrder_AsClaimed ==
    /\ InArbitrationOrder
    /\ pc = "check" =>
          \A j \in Junctions :
              (~DictHas(at_step, j) /\ Cardinality(Contenders(j)) >= 2) =>
                  /\ Overridden(j)
                  /\ \A v \in Contenders(j) : WinsOver(j, v)

\* C14 amended - requesters are processed in ascending rank, ties in
\* live-list order, and when several requesters resolve an approach to a
\* junction that was Free when the step began, the record at the end of
\* arbitration names a requester that comes before (smaller rank, or equal
\* rank and listed first) every other one of them for which no call raised in
\* the step; a requester whose handling raised is skipped and may lose the
\* junction to one that comes after it.
C14_ArbitrationOrder ==
    /\ InArbitrationOrder
    /\ pc = "check" =>
          \A j \in Junctions :
              (/\ ~DictHas(at_step, j)
               /\ Cardinality(Contenders(j)) >= 2
               /\ Contenders(j) \ faulted # { }) =>
                  /\ Overridden(j)
                  /\ \A v \in Contenders(j) \ faulted : WinsOver(j, v)

\* C14 witness: two requesters of equal rank resolved an approach to a
\* junction that was Free, and the one listed first holds it.
C14_Witness ==
    /\ pc = "check"
    /\ faulted = { }
    /\ \E j \in Junctions :
          /\ ~DictHas(at_step, j)
          /\ Contenders(j) = { "v1", "v2" }
          /\ vclass["v2"] = "veh_hazmat"
          /\ DictGet(currently_preempted_tls, j)[1] = "v1"

\* the junction was overridden in the current step: its record is not the one
\* the step found (a successful call always stores a new holder or rank)
AdmittedInStep(j) ==
    /\ DictHas(currently_preempted_tls, j)
    /\ DictHas(at_step, j) =>
          DictGet(at_step, j) # DictGet(currently_preempted_tls, j)

\* C15 - At most one successful override per junction and step: once a call
\* on a junction has succeeded in a step, every later call on that junction in
\* the same step returns false, whatever the junction's state was when the
\* step began.
C15_OneWinnerPerStep ==
    [][(Called' /\ AdmittedInStep(ret'.tls_id)) => ret'.result = "False"]_vars

\* C15 witness: a junction that had a holder when the step began was taken
\* over in the step, and a later call on it in the same step was rejected.
C15_Witness ==
    /\ Called
    /\ ret.result = "False"
    /\ DictHas(at_step, ret.tls_id)
    /\ AdmittedInStep(ret.tls_id)
    /\ DictGet(currently_preempted_tls, ret.tls_id)[1] # ret.vehicle_id

\* C16 - Restore retry: a restore that fails partway (setProgram, setPhase or
\* setPhaseDuration raises) leaves the junction's Record and Snapshot in the
\* Store as they were; and whenever the release check runs, every junction
\* with a Record whose release is due (so also one left by a failed restore)
\* is evaluated and its restoration attempted, unless a call raised in that
\* release check before the junction's turn.
C16_RestoreRetry ==
    [][pc = "check" =>
          /\ \A r \in released' :
                ~r.complete =>
                    /\ Overridden(r.tls)'
                    /\ HasSnapshot(r.tls)'
                    /\ DictGet(currently_preempted_tls, r.tls)'
                           = DictGet(currently_preempted_tls, r.tls)
                    /\ DictGet(preemption_memory, r.tls)'
                           = DictGet(preemption_memory, r.tls)
          /\ \A j \in Junctions :
                (Overridden(j) /\ HolderGone(j)) =>
                    \/ \E r \in released' : r.tls = j /\ r.snapshot # << >>
                    \/ nfaults' # nfaults]_vars

\* C16 witness: a junction whose earlier restore had failed after setProgram
\* (it ran its program again while the Record was kept) was restored to the
\* end by a later release check.
C16_Witness ==
    /\ pc = "loop"
    /\ faulted = { }
    /\ \E r \in released :
          /\ r.complete
          /\ r.holder # << >>
          /\ r.snapshot # << >>
          /\ r.program # "online"
          /\ ~Overridden(r.tls)
          /\ ~HasSnapshot(r.tls)

\* C17 - Restore at most once per release: a restore command that already
\* succeeded for a release is not sent again by a later retry of that release.
\* (A junction under a Record that runs a program other than "online" has had
\* its setProgram succeed since it was last overridden.)
C17_NoRedundantRestore ==
    pc = "loop" =>
        \A r \in released :
            (r.holder # << >> /\ r.program # "online") =>
                \A n \in 1..Len(sent) :
                    ~(sent[n].cmd = "setProgram" /\ sent[n].tls = r.tls)

\* C18 - Transport failure: when a call raises FatalTraCIError during the
\* override processing or the release check, the rest of that step is
\* abandoned (nothing is left to process), no override or release processing
\* is started afterwards, and the only step left is the end of run(), which
\* closes the connection and terminates.
C18_TransportFailure ==
    [][/\ (connected /\ ~connected' /\ pc # "loop") =>
              /\ pc' = "loop"
              /\ emergency_vehicles' = << >>
              /\ nearby_tls' = << >>
       /\ ~connected =>
              /\ pc = "loop"
              /\ pc' = "done"
              /\ currently_preempted_tls' = currently_preempted_tls
              /\ preemption_memory' = preemption_memory
              /\ tl' = tl
              /\ sent' = << >>]_vars

\* C18 witness: run() has ended while a vehicle was still in the simulation
\* and a junction still Overridden: the connection was lost in mid-step, with
\* requesters still to process.
C18_Witness ==
    /\ pc = "done"
    /\ nfaults = 1
    /\ \E v \in Vehicles : Live(v) /\ v \in Prioritized /\ v \notin arbitrated
    /\ \E j \in Junctions : Overridden(j)

\* C19 - No release in the step of admission: a successful call is made for a
\* requester that is live, not on an internal segment and at most the radius
\* away from the junction, and the release check of the same step keeps every
\* junction overridden in that step (newly or by displacement): its Record
\* and Snapshot stay and no restore command is sent for it.
C19_NoReleaseInAdmissionStep ==
    [][/\ (Called' /\ ret'.result = "True") =>
              /\ Live(ret'.vehicle_id)
              /\ ~StartsWithColon(RoadID(ret'.vehicle_id))
              /\ Distance2(ret'.vehicle_id, ret'.tls_id)
                     <= DETECTION_RADIUS * DETECTION_RADIUS
       /\ pc = "check" =>
              \A j \in Junctions :
                  AdmittedInStep(j) =>
                      /\ Overridden(j)'
                      /\ DictGet(currently_preempted_tls, j)'
                             = DictGet(currently_preempted_tls, j)
                      /\ HasSnapshot(j)'
                      /\ \A n \in 1..Len(sent') :
                            ~(IsRestoreCommand(sent'[n]) /\ sent'[n].tls = j)]_vars

\* C19 witness: a step that found a junction Free ended with the junction
\* held by a requester standing exactly at the detection radius.
C19_Witness ==
    /\ pc = "loop"
    /\ \E j \in Junctions :
          /\ ~DictHas(at_step, j)
          /\ AdmittedInStep(j)
          /\ Distance2(DictGet(currently_preempted_tls, j)[1], j)
                 = DETECTION_RADIUS * DETECTION_RADIUS

\* C20 - End-of-step invariant: at the end of a step in which no call raised,
\* every OverrideRecord names a requester that is in the vehicle list and at
\* most the detection radius away from the record's junction.
C20_EndOfStepInvariant ==
    (pc = "loop" /\ faulted = { }) =>
        \A j \in Junctions :
            Overridden(j) =>
                /\ Live(DictGet(currently_preempted_tls, j)[1])
                /\ ~HolderGone(j)

\* C20 witness: a step without a raise removed the record of a requester that
\* had left the simulation and kept the record of one that is still in range.
C20_Witness ==
    /\ pc = "loop"
    /\ faulted = { }
    /\ \E r \in released :
          /\ r.complete
          /\ r.holder # << >>
          /\ ~Live(r.holder[1][1])
    /\ \E j \in Junctions : Overridden(j) /\ ~HolderGone(j)

\* the requesters: the prioritized vehicles and the holders of the records
Requesters ==
    Prioritized \cup
        { v \in Vehicles :
              \E j \in Junctions :
                  Overridden(j) /\ DictGet(currently_preempted_tls, j)[1] = v }

\* every requester has left the simulation or is farther than the detection
\* radius from every junction
RequestersAway ==
    \A v \in Requesters :
        Live(v) =>
            \A j \in Junctions :
                Distance2(v, j) > DETECTION_RADIUS * DETECTION_RADIUS

\* the junction is Free: no OverrideRecord and no Snapshot
Free(j) == ~Overridden(j) /\ ~HasSnapshot(j)

\* C21 - Every override is eventually undone: if steps keep being executed
\* (the loop is again and again right behind simulationStep and again and
\* again at the end of a step) and from some
\* time on every prioritized requester has left or stays beyond the detection
\* radius, then every junction is Free again and again: an Overridden junction
\* eventually becomes Free, and no OverrideRecord and no Snapshot stays in the
\* Store forever.
C21_EveryOverrideUndone ==
    ([]<>(pc = "identify") /\ []<>(pc = "loop") /\ <>[]RequestersAway) =>
        \A j \in Junctions : []<>Free(j)

====
